---- MODULE Spec2Model ----
(***************************************************************************)
(* State machine of the MultipleValueTextInput React component             *)
(* (src/src/components/MultipleValueTextInput.js).                         *)
(*                                                                         *)
(* The component state is {values, value}; props are fixed at              *)
(* construction.  onItemAdded / onItemDeleted are caller callbacks; their  *)
(* invocations are recorded, in order, in `calls`.  Each action is one     *)
(* user event dispatched to the rendered widget: the handler runs to       *)
(* completion, its setState calls are flushed and the widget re-renders.   *)
(***************************************************************************)
EXTENDS Integers, Sequences, FiniteSets, TLC

(* ---------------------------- bounds ----------------------------------- *)
MaxSeed  == 2      \* longest props.values sequence explored
MaxLen   == 2      \* longest text typed into the input
MaxCalls == 2      \* callbacks delivered before the user stops interacting

(* ------------------------ key codes and texts -------------------------- *)
Enter == 13
Comma == 44
Space == 32
LetterA == 97

Keys == {Enter, Comma, Space, LetterA}

\* The character a key press inserts into a single-line text input when its
\* default action is not prevented (Enter inserts nothing).
CharOf(code) ==
    CASE code = Comma   -> ","
      [] code = Space   -> " "
      [] code = LetterA -> "a"
      [] OTHER          -> ""

SeedElems == {"a", "b"}
PasteTexts == {"", "b"}

DefaultCharCodes == <<Enter, Comma>>
CharCodeChoices == {DefaultCharCodes, <<Space>>}

SeedsOfLen(n) == [1..n -> SeedElems]
Seeds == UNION {SeedsOfLen(n) : n \in 0..MaxSeed}

(* ------------------------------ state ---------------------------------- *)
VARIABLES
    props,      \* [values, charCodes, shouldAddOnBlur]: construction props
    values,     \* this.state.values: the committed values
    value,      \* this.state.value: the draft text shown in the input
    calls,      \* callback invocations so far, oldest first
    valuesRef,  \* identity of the array object held in this.state.values
    callRefs,   \* identity of the array object passed in each call of `calls`
    lastEvent,  \* the user event handled last: [kind, code, text]
    pre         \* component state when that event arrived

vars == <<props, values, value, calls, valuesRef, callRefs, lastEvent, pre>>

\* Array objects: the caller's props.values array, and the arrays the
\* handlers allocate with concat / filter.
SeedRef == 0
NewArrayRef == valuesRef + 1

(* ------------------------- array helpers ------------------------------- *)
Range(s) == {s[i] : i \in 1..Len(s)}

\* this.state.values.includes(value)
IncludesNever(arr, x) == FALSE
IncludesLastOnly(arr, x) == Len(arr) > 0 /\ arr[Len(arr)] = x
Includes(arr, x) == \E i \in 1..Len(arr) : arr[i] = x

\* `!value` for a string
IsFalsyNever(v) == FALSE
IsFalsy(v) == v = ""

\* this.state.values.concat(value)
ConcatFront(arr, x) == <<x>> \o arr
Concat(arr, x) == Append(arr, x)

\* currentValues.filter(v => v !== value)
FilterDropFirstRow(arr, x) == IF Len(arr) > 0 THEN Tail(arr) ELSE arr
FilterInverted(arr, x) == SelectSeq(arr, LAMBDA v : v = x)
Filter(arr, x) == SelectSeq(arr, LAMBDA v : v # x)

AddedCall(v, snapshot) == [fn |-> "onItemAdded", value |-> v, values |-> snapshot]
DeletedCall(v, snapshot) == [fn |-> "onItemDeleted", value |-> v, values |-> snapshot]

(* ---------------------------- handlers --------------------------------- *)
\* handleItemAdd, rejection branch: only the draft is cleared
RejectItemKeepDraft ==
    UNCHANGED <<values, value, calls, valuesRef, callRefs>>
RejectItem ==
    /\ value' = ""
    /\ UNCHANGED <<values, calls, valuesRef, callRefs>>

handleItemAdd(v) ==
    IF Includes(values, v) \/ IsFalsy(v)
    THEN RejectItem
    ELSE LET newValues == Concat(values, v) IN
         /\ values' = newValues
         /\ valuesRef' = NewArrayRef
         /\ value' = ""
         /\ calls' = Append(calls, AddedCall(v, newValues))
         /\ callRefs' = Append(callRefs, NewArrayRef)

handleValueChangeIgnoreEmpty(text) ==
    /\ value' = IF text = "" THEN value ELSE text
    /\ UNCHANGED <<values, calls, valuesRef, callRefs>>
handleValueChange(text) ==
    /\ value' = text
    /\ UNCHANGED <<values, calls, valuesRef, callRefs>>

handleItemRemoveStaleSnapshot(v) ==
    LET newValues == Filter(values, v) IN
    /\ calls' = Append(calls, DeletedCall(v, values))
    /\ callRefs' = Append(callRefs, valuesRef)
    /\ values' = newValues
    /\ valuesRef' = NewArrayRef
    /\ UNCHANGED value
handleItemRemove(v) ==
    LET newValues == Filter(values, v) IN
    /\ calls' = Append(calls, DeletedCall(v, newValues))
    /\ callRefs' = Append(callRefs, NewArrayRef)
    /\ values' = newValues
    /\ valuesRef' = NewArrayRef
    /\ UNCHANGED value

\* charCodes.includes(e.charCode)
IsSubmitKeyAlways(code) == TRUE
IsSubmitKey(code) == \E i \in 1..Len(props.charCodes) : props.charCodes[i] = code

\* The input is controlled (value={this.state.value}), so e.target.value
\* is the draft held in state when the event arrives.
TargetValue == value

\* Browser default action of a key press that was not prevented: the key's
\* character, if any, is inserted and the change event reaches onChange.
DefaultAction(code) ==
    IF CharOf(code) = ""
    THEN UNCHANGED <<values, value, calls, valuesRef, callRefs>>
    ELSE handleValueChange(TargetValue \o CharOf(code))

\* e.preventDefault() on a submit key: the key's character is not inserted.
handleKeypressNoPreventDefault(code) ==
    IF IsSubmitKey(code)
    THEN IF Includes(values, TargetValue) \/ IsFalsy(TargetValue)
         THEN /\ value' = CharOf(code)
              /\ UNCHANGED <<values, calls, valuesRef, callRefs>>
         ELSE LET newValues == Concat(values, TargetValue) IN
              /\ values' = newValues
              /\ valuesRef' = NewArrayRef
              /\ value' = CharOf(code)
              /\ calls' = Append(calls, AddedCall(TargetValue, newValues))
              /\ callRefs' = Append(callRefs, NewArrayRef)
    ELSE DefaultAction(code)
handleKeypress(code) ==
    IF IsSubmitKey(code)
    THEN handleItemAdd(TargetValue)
    ELSE DefaultAction(code)

\* The rendered <input> has onKeyPress and onChange only; shouldAddOnBlur is
\* not read by the component and no blur handler is attached.
handleBlurCommits == handleItemAdd(TargetValue)
handleBlur == UNCHANGED <<values, value, calls, valuesRef, callRefs>>

\* render(): the rows shown
Displayed ==
    IF Len(values) > 0 THEN values ELSE props.values

\* MultipleValueTextInputItem: activating the removal control of the row
\* showing v calls handleItemRemove(v).
ItemDeleteClick(v) == handleItemRemove(v)

(* ----------------------------- events ---------------------------------- *)
\* What `pre` remembers of the event before the one being handled: whether
\* it was a trigger key press on a non-empty draft not yet in the collection,
\* and the collection and call count it found.
NoCommit == [commit |-> FALSE, from |-> <<>>, v |-> "", ncalls |-> 0]
PrevCommit ==
    IF /\ lastEvent.kind = "keypress"
       /\ lastEvent.code \in Range(props.charCodes)
       /\ pre.value # ""
       /\ pre.value \notin Range(pre.values)
    THEN [commit |-> TRUE, from |-> pre.values, v |-> pre.value,
          ncalls |-> pre.ncalls]
    ELSE NoCommit

Snapshot == [values |-> values, value |-> value, ncalls |-> Len(calls),
             prev |-> PrevCommit]

Interacting == Len(calls) < MaxCalls

KeyPress ==
    \E code \in Keys :
        /\ Interacting
        /\ IsSubmitKey(code) \/ CharOf(code) = "" \/ Len(value) < MaxLen
        /\ handleKeypress(code)
        /\ lastEvent' = [kind |-> "keypress", code |-> code, text |-> ""]
        /\ pre' = Snapshot
        /\ UNCHANGED props

Change ==
    \E text \in PasteTexts :
        /\ Interacting
        /\ handleValueChange(text)
        /\ lastEvent' = [kind |-> "change", code |-> 0, text |-> text]
        /\ pre' = Snapshot
        /\ UNCHANGED props

Blur ==
    /\ Interacting
    /\ handleBlur
    /\ lastEvent' = [kind |-> "blur", code |-> 0, text |-> ""]
    /\ pre' = Snapshot
    /\ UNCHANGED props

RemoveClick ==
    \E i \in 1..Len(Displayed) :
        /\ Interacting
        /\ ItemDeleteClick(Displayed[i])
        /\ lastEvent' = [kind |-> "remove", code |-> 0, text |-> Displayed[i]]
        /\ pre' = Snapshot
        /\ UNCHANGED props

Init ==
    /\ props \in [values : Seeds, charCodes : CharCodeChoices,
                  shouldAddOnBlur : BOOLEAN]
    /\ values = props.values
    /\ value = ""
    /\ valuesRef = SeedRef
    /\ calls = <<>>
    /\ callRefs = <<>>
    /\ lastEvent = [kind |-> "init", code |-> 0, text |-> ""]
    /\ pre = [values |-> props.values, value |-> "", ncalls |-> 0,
              prev |-> NoCommit]

Next == KeyPress \/ Change \/ Blur \/ RemoveClick

Spec == Init /\ [][Next]_vars

(* ------------------ a caller that mutates its arrays ------------------- *)
\* Array.prototype.pop (on an empty array it changes nothing)
Pop(arr) == SubSeq(arr, 1, Len(arr) - 1)

\* The arrays the caller holds: the one it passed as props.values and every
\* one it received as second argument of onItemAdded / onItemDeleted.
HeldByCaller == {SeedRef} \cup Range(callRefs)

\* The caller pops the last element of one of its arrays; every reference
\* to that array object sees the change.
CallerMutates ==
    \E r \in HeldByCaller :
        /\ props' = IF r = SeedRef
                    THEN [props EXCEPT !.values = Pop(@)]
                    ELSE props
        /\ calls' = [k \in 1..Len(calls) |->
                        IF callRefs[k] = r
                        THEN [calls[k] EXCEPT !.values = Pop(@)]
                        ELSE calls[k]]
        /\ values' = IF valuesRef = r THEN Pop(values) ELSE values
        /\ lastEvent' = [kind |-> "mutate", code |-> r, text |-> ""]
        /\ pre' = Snapshot
        /\ UNCHANGED <<value, valuesRef, callRefs>>

NextAlias == Next \/ CallerMutates

SpecAlias == Init /\ [][NextAlias]_vars

(* ------------------- vocabulary of the properties ---------------------- *)
NoDuplicates(seq) == \A i, j \in 1..Len(seq) : seq[i] = seq[j] => i = j

InTriggerSet(code) == code \in Range(props.charCodes)

\* The last event was a key press that ran handleItemAdd on the draft.
CommitAttempt == lastEvent.kind = "keypress" /\ InTriggerSet(lastEvent.code)
Candidate == pre.value

RemovalOf(v) == lastEvent.kind = "remove" /\ lastEvent.text = v

PreCalls == SubSeq(calls, 1, pre.ncalls)
NoCallback == calls = PreCalls
OnlyAdds == \A k \in 1..Len(calls) : calls[k].fn = "onItemAdded"

\* seq with the element at position i taken out
WithoutIndex(seq, i) == SubSeq(seq, 1, i - 1) \o SubSeq(seq, i + 1, Len(seq))

(* ------------------------------ C1 ------------------------------------- *)
\* C1: from an empty seed, as long as only commits have happened, a commit of
\* a non-empty string not committed before appends it, so the collection is
\* the committed strings in commit order, and onItemAdded has been called
\* once per string, the k-th call carrying (k-th string, first k strings).
C1_CommitOrder ==
    (props.values = <<>> /\ OnlyAdds) =>
        /\ Len(calls) = Len(values)
        /\ \A k \in 1..Len(calls) :
              /\ calls[k].value = values[k]
              /\ calls[k].values = SubSeq(values, 1, k)
        /\ (CommitAttempt /\ Candidate # "" /\ Candidate \notin Range(pre.values)) =>
              /\ values = Append(pre.values, Candidate)
              /\ Len(calls) = pre.ncalls + 1

C1_Witness ==
    /\ props.values = <<>>
    /\ OnlyAdds
    /\ CommitAttempt
    /\ Len(values) = 2
    /\ Len(calls) = 2
    /\ values[2] = Candidate

(* ------------------------------ C2 ------------------------------------- *)
\* C2: a commit attempt whose candidate is already in the collection leaves
\* the collection unchanged and calls no callback; and after any commit
\* attempt of a non-empty string that string is in the collection, so an
\* immediate second attempt with it is such a duplicate.
C2_DuplicateRejected ==
    /\ (CommitAttempt /\ Candidate \in Range(pre.values)) =>
          (values = pre.values /\ NoCallback)
    /\ (CommitAttempt /\ Candidate # "") => Candidate \in Range(values)

C2_Witness ==
    /\ CommitAttempt
    /\ Candidate # ""
    /\ Candidate \in Range(pre.values)
    /\ Len(pre.values) >= 2
    /\ pre.values[1] = Candidate

(* ------------------------------ C3 ------------------------------------- *)
\* C3: a commit attempt with the empty string as candidate leaves the
\* collection unchanged and calls neither onItemAdded nor onItemDeleted.
C3_EmptyRejected ==
    (CommitAttempt /\ Candidate = "") => (values = pre.values /\ NoCallback)

C3_Witness ==
    /\ CommitAttempt
    /\ Candidate = ""
    /\ Len(values) > 0

(* ------------------------------ C4 ------------------------------------- *)
RemovedExactlyOne(v) ==
    /\ Len(values) = Len(pre.values) - 1
    /\ \E i \in 1..Len(pre.values) :
          pre.values[i] = v /\ values = WithoutIndex(pre.values, i)
    /\ calls = Append(PreCalls, DeletedCall(v, values))

\* C4 as stated: removing a present value, whatever the seed, shrinks the
\* collection by exactly one element, keeps the order of the rest and calls
\* onItemDeleted once with (value, post-removal collection).
C4_RemovePresent_AnySeed ==
    \A v \in Range(pre.values) : RemovalOf(v) => RemovedExactlyOne(v)

\* C4 amended: the same, for a collection that holds no two equal strings.
C4_RemovePresent ==
    \A v \in Range(pre.values) :
        (RemovalOf(v) /\ NoDuplicates(pre.values)) => RemovedExactlyOne(v)

C4_Witness ==
    /\ lastEvent.kind = "remove"
    /\ lastEvent.text \in Range(pre.values)
    /\ NoDuplicates(pre.values)
    /\ Len(pre.values) >= 2
    /\ pre.values[Len(pre.values)] = lastEvent.text

(* ------------------------------ C5 ------------------------------------- *)
\* C5: removing a value that is not in the collection changes nothing and
\* calls no callback.
C5_RemoveAbsentNoOp ==
    (lastEvent.kind = "remove" /\ lastEvent.text \notin Range(pre.values)) =>
        (values = pre.values /\ NoCallback)

(* ------------------------------ C6 ------------------------------------- *)
\* C6: with shouldAddOnBlur set, a blur whose draft is non-empty and not yet
\* in the collection appends the draft and calls onItemAdded once with
\* (draft, new collection).
C6_BlurCommits ==
    (/\ lastEvent.kind = "blur"
     /\ props.shouldAddOnBlur
     /\ pre.value # ""
     /\ pre.value \notin Range(pre.values)) =>
        /\ values = Append(pre.values, pre.value)
        /\ calls = Append(PreCalls, AddedCall(pre.value, values))

(* ------------------------------ C7 ------------------------------------- *)
\* C7: with shouldAddOnBlur false, a blur never commits: the collection is
\* unchanged and no callback is called, whatever the draft.
C7_BlurDisabledNoCommit ==
    (lastEvent.kind = "blur" /\ ~props.shouldAddOnBlur) =>
        (values = pre.values /\ NoCallback)

C7_Witness ==
    /\ lastEvent.kind = "blur"
    /\ ~props.shouldAddOnBlur
    /\ pre.value # ""
    /\ pre.value \notin Range(pre.values)

(* ------------------------------ C8 ------------------------------------- *)
\* C8: a key press whose code is outside the trigger set leaves the
\* collection unchanged, calls no callback and keeps the draft; a key press
\* whose code is in the set is a commit attempt on the draft: the draft is
\* consumed, and a non-empty candidate not yet present is appended.
C8_TriggerKeysOnly ==
    lastEvent.kind = "keypress" =>
        IF InTriggerSet(lastEvent.code)
        THEN /\ value = ""
             /\ IF Candidate = "" \/ Candidate \in Range(pre.values)
                THEN values = pre.values /\ NoCallback
                ELSE /\ values = Append(pre.values, Candidate)
                     /\ calls = Append(PreCalls, AddedCall(Candidate, values))
        ELSE /\ values = pre.values
             /\ NoCallback
             /\ value = pre.value \o CharOf(lastEvent.code)

C8_Witness ==
    /\ lastEvent.kind = "keypress"
    /\ lastEvent.code = Enter
    /\ props.charCodes = <<Space>>
    /\ props.values = <<>>
    /\ pre.value # ""
    /\ values = <<>>

(* ------------------------------ C9 ------------------------------------- *)
\* C9: the draft is the empty string right after every commit attempt,
\* accepted or rejected.
C9_DraftCleared ==
    CommitAttempt => value = ""

C9_Witness ==
    /\ CommitAttempt
    /\ Candidate # ""
    /\ Candidate \in Range(pre.values)
    /\ value = ""
    /\ values = pre.values

(* ------------------------------ C10 ------------------------------------ *)
\* C10 as stated: whatever the seed, the collection never holds two equal
\* strings.
C10_NoDuplicates_AnySeed ==
    NoDuplicates(values)

\* C10 amended: from a seed without duplicates, the collection never holds
\* two equal strings.
C10_NoDuplicates ==
    NoDuplicates(props.values) => NoDuplicates(values)

C10_Witness ==
    /\ NoDuplicates(props.values)
    /\ Len(props.values) > 0
    /\ CommitAttempt
    /\ Candidate \in Range(pre.values)
    /\ Len(calls) > 0
    /\ Len(values) >= 2

(* ------------------------------ C11 ------------------------------------ *)
IsDeleteCallAt(k) == k \in 1..Len(calls) /\ calls[k].fn = "onItemDeleted"

\* C11: onItemDeleted is invoked exactly once per removal that shrank the
\* collection and never otherwise: an event that shrank the collection
\* delivered exactly one call, an onItemDeleted, and an event that delivered
\* an onItemDeleted call shrank the collection.
C11_DeletedOncePerRemoval ==
    /\ Len(values) < Len(pre.values) =>
          (Len(calls) = pre.ncalls + 1 /\ IsDeleteCallAt(Len(calls)))
    /\ (\E k \in (pre.ncalls + 1)..Len(calls) : IsDeleteCallAt(k)) =>
          Len(values) < Len(pre.values)

(* ------------------------------ C12 ------------------------------------ *)
\* C12: a mutation by the caller of the seed array, or of an array it
\* received in a callback, does not change the collection the widget holds.
C12_NoSharedArray ==
    lastEvent.kind = "mutate" => values = pre.values

(* ------------------------------ C13 ------------------------------------ *)
\* C13: the rows render displays are the collection held in state, in
\* every reachable state (so no rows once the collection is empty).
C13_DisplayedIsCollection ==
    Displayed = values

(* ------------------------------ C14 ------------------------------------ *)
\* C14: a change event with text t makes the draft t, whatever t, leaves
\* the collection unchanged and calls no callback.
C14_DraftReplaced ==
    lastEvent.kind = "change" =>
        /\ value = lastEvent.text
        /\ values = pre.values
        /\ NoCallback

C14_Witness ==
    /\ lastEvent.kind = "change"
    /\ lastEvent.text = ""
    /\ pre.value # ""
    /\ Len(values) > 0

(* ------------------------------ C15 ------------------------------------ *)
\* C15: after a trigger key press on draft t the trigger key's character is
\* not left in the draft, and a value committed by it is exactly t with
\* snapshot collection ++ [t]; after a non-trigger key press the key's
\* default action has taken place: its character is appended to the draft.
C15_DefaultSuppressedOnTrigger ==
    lastEvent.kind = "keypress" =>
        IF InTriggerSet(lastEvent.code)
        THEN /\ value = ""
             /\ Len(calls) > pre.ncalls =>
                   /\ Len(calls) = pre.ncalls + 1
                   /\ calls[Len(calls)] =
                         AddedCall(Candidate, Append(pre.values, Candidate))
                   /\ values = Append(pre.values, Candidate)
        ELSE value = pre.value \o CharOf(lastEvent.code)

C15_Witness ==
    /\ lastEvent.kind = "keypress"
    /\ lastEvent.code = Comma
    /\ InTriggerSet(Comma)
    /\ Candidate = "a "
    /\ Len(calls) = pre.ncalls + 1
    /\ values = Append(pre.values, Candidate)
    /\ value = ""

(* ------------------------------ C16 ------------------------------------ *)
\* C16: once a callback has been delivered, the collection argument of the
\* most recent call equals the current collection.
C16_LastSnapshotIsCollection ==
    Len(calls) > 0 => calls[Len(calls)].values = values

C16_Witness ==
    /\ Len(calls) = 2
    /\ calls[1].fn = "onItemAdded"
    /\ calls[2].fn = "onItemDeleted"
    /\ lastEvent.kind = "remove"
    /\ Len(values) > 0

(* ------------------------------ C17 ------------------------------------ *)
\* C17: committing a non-empty v not in collection C and then removing v
\* gives back C, with exactly one onItemAdded(v, C ++ [v]) call followed by
\* exactly one onItemDeleted(v, C) call.
C17_CommitRemoveRoundTrip ==
    (/\ lastEvent.kind = "remove"
     /\ pre.prev.commit
     /\ lastEvent.text = pre.prev.v) =>
        /\ values = pre.prev.from
        /\ Len(calls) = pre.prev.ncalls + 2
        /\ calls[Len(calls) - 1] =
              AddedCall(pre.prev.v, Append(pre.prev.from, pre.prev.v))
        /\ calls[Len(calls)] = DeletedCall(pre.prev.v, pre.prev.from)

C17_Witness ==
    /\ lastEvent.kind = "remove"
    /\ pre.prev.commit
    /\ lastEvent.text = pre.prev.v
    /\ Len(pre.prev.from) > 0
    /\ values = pre.prev.from
    /\ Len(calls) = 2

====
